---- MODULE Spec2Model ----
(***************************************************************************)
(* A model of src/main.py, the pull-request review pipeline:               *)
(*   read_github_event -> get_pr_details -> get_diff -> filter_files ->    *)
(*   analyze_code -> create_review_comment, run under the try/except of    *)
(*   the __main__ block.                                                   *)
(*                                                                         *)
(* Python values are tagged records: Str(<<chars>>), Num(n), NoneV,        *)
(* Dict(record), List(<<values>>).  A text is a sequence of one-character  *)
(* strings, so that split, strip, lower, Path normalisation and glob       *)
(* matching are computed character by character.                           *)
(*                                                                         *)
(* The chain runner (SequentialChain.run) is library code; it is modelled  *)
(* as calling the tools in list order, each tool taking its parameters by  *)
(* name from the values the earlier tools returned.                        *)
(***************************************************************************)
EXTENDS Integers, Sequences, FiniteSets, TLC

VARIABLES
    pc,             \* position of the run
    env,            \* the process environment: variable name -> value
    fs,             \* the directory the process runs in: name -> node
    chain,          \* the tool sequence built by sequentialChainForAction
    event_data,     \* value returned by read_github_event
    pr_details,     \* value returned by get_pr_details
    file_diffs,     \* value returned by get_diff
    filtered_files, \* value returned by filter_files
    comments,       \* the list analyze_code builds and returns
    idx,            \* analyze_code: index of the file the loop is at
    llm_calls,      \* model invocations made so far (prompt and outcome)
    stdout,         \* lines printed
    exc,            \* the exception raised, if any
    started,        \* tools started so far, in order, with the arguments given
    finished        \* tools that returned so far, in order, with the value returned

vars == <<pc, env, fs, chain, event_data, pr_details, file_diffs,
          filtered_files, comments, idx, llm_calls, stdout, exc, started, finished>>

(***************************************************************************)
(* Bounds.                                                                 *)
(***************************************************************************)
MaxCfgLen == 3
MaxFilterFiles == 2
MaxFiles == 2

(***************************************************************************)
(* Python values.                                                          *)
(***************************************************************************)
Str(s) == [t |-> "str", v |-> s]
Num(n) == [t |-> "int", v |-> n]
NoneV == [t |-> "None"]
Dict(f) == [t |-> "dict", v |-> f]
List(q) == [t |-> "list", v |-> q]
Unset == [t |-> "unset"]
EmptyDict == Dict([k \in {} |-> NoneV])

Ok(v) == [ok |-> TRUE, val |-> v]
Raise(type, msg) == [ok |-> FALSE, exc |-> [type |-> type, base |-> "Exception", msg |-> msg]]
NoExc == [type |-> "none"]

\* bool(v): the truth value Python gives v in `if v` / `not v`.
Truthy(v) ==
    CASE v.t = "None" -> FALSE
      [] v.t = "str" -> Len(v.v) > 0
      [] v.t = "list" -> Len(v.v) > 0
      [] v.t = "int" -> v.v # 0
      [] v.t = "dict" -> DOMAIN v.v # {}
      [] OTHER -> TRUE

\* d.get(k, default) on a dict d.
DictGet(d, k, default) == IF k \in DOMAIN d.v THEN d.v[k] ELSE default

DigitChars == <<"0", "1", "2", "3", "4", "5", "6", "7", "8", "9">>

RECURSIVE Digits(_)
Digits(n) ==
    IF n < 10 THEN <<DigitChars[n + 1]>>
    ELSE Digits(n \div 10) \o Digits(n % 10)

\* str(v) as an f-string or str.format renders v.
Format(v) ==
    CASE v.t = "str" -> v.v
      [] v.t = "None" -> <<"N", "o", "n", "e">>
      [] v.t = "int" -> Digits(v.v)

(***************************************************************************)
(* Text operations.                                                        *)
(***************************************************************************)
Whitespace == {" ", "\t", "\n", "\r"}

UpperChars == <<"A","B","C","D","E","F","G","H","I","J","K","L","M",
                "N","O","P","Q","R","S","T","U","V","W","X","Y","Z">>
LowerChars == <<"a","b","c","d","e","f","g","h","i","j","k","l","m",
                "n","o","p","q","r","s","t","u","v","w","x","y","z">>

LowerChar(c) ==
    IF \E i \in 1..26 : UpperChars[i] = c
    THEN LowerChars[CHOOSE i \in 1..26 : UpperChars[i] = c]
    ELSE c

\* str.lower()
Lower(s) == [i \in 1..Len(s) |-> LowerChar(s[i])]

RECURSIVE LStrip(_)
LStrip(s) == IF s # <<>> /\ Head(s) \in Whitespace THEN LStrip(Tail(s)) ELSE s

RECURSIVE RStrip(_)
RStrip(s) ==
    IF s # <<>> /\ s[Len(s)] \in Whitespace THEN RStrip(SubSeq(s, 1, Len(s) - 1)) ELSE s

\* A strip that removes nothing.
StripNoop(s) == s

\* str.strip()
Strip(s) == RStrip(LStrip(s))

\* str.split(sep): the pieces between the separators; always at least one.
RECURSIVE Split(_, _)
Split(s, sep) ==
    IF \E i \in 1..Len(s) : s[i] = sep
    THEN LET i == CHOOSE i \in 1..Len(s) : s[i] = sep /\ \A j \in 1..(i - 1) : s[j] # sep
         IN  <<SubSeq(s, 1, i - 1)>> \o Split(SubSeq(s, i + 1, Len(s)), sep)
    ELSE <<s>>

RECURSIVE Join(_, _)
Join(parts, sep) ==
    IF parts = <<>> THEN <<>>
    ELSE IF Len(parts) = 1 THEN parts[1]
    ELSE parts[1] \o <<sep>> \o Join(Tail(parts), sep)

Contains(s, sub) ==
    \E i \in 1..(Len(s) - Len(sub) + 1) : SubSeq(s, i, i + Len(sub) - 1) = sub

(***************************************************************************)
(* fnmatch.fnmatch(name, pat) on a POSIX host (normcase is the identity):  *)
(* `*` matches any run of characters, `?` one character, `[seq]` one       *)
(* character of seq, `[!seq]` one character not in seq; a `[` with no      *)
(* closing `]` is a literal.  The whole name must match.                   *)
(***************************************************************************)
CharOrder == <<"\t", "\n", "\r", " ", "!", "*", ",", "-", ".", "/", "?">>
             \o UpperChars \o <<"[", "]", "^", "_">> \o LowerChars

Ord(c) == CHOOSE i \in 1..Len(CharOrder) : CharOrder[i] = c

\* Index of the `]` closing the class opened at p[i] = "[", or 0.
ClassEnd(p, i) ==
    LET j1 == IF i + 1 <= Len(p) /\ p[i + 1] = "!" THEN i + 2 ELSE i + 1
        j2 == IF j1 <= Len(p) /\ p[j1] = "]" THEN j1 + 1 ELSE j1
    IN  IF \E j \in j2..Len(p) : p[j] = "]"
        THEN CHOOSE j \in j2..Len(p) : p[j] = "]" /\ \A k \in j2..(j - 1) : p[k] # "]"
        ELSE 0

RECURSIVE ClassItems(_, _, _)
ClassItems(body, k, c) ==
    IF k > Len(body) THEN FALSE
    ELSE IF k + 2 <= Len(body) /\ body[k + 1] = "-"
         THEN (Ord(body[k]) <= Ord(c) /\ Ord(c) <= Ord(body[k + 2]))
              \/ ClassItems(body, k + 3, c)
         ELSE body[k] = c \/ ClassItems(body, k + 1, c)

InClass(stuff, c) ==
    IF stuff[1] = "!" THEN ~ClassItems(Tail(stuff), 1, c) ELSE ClassItems(stuff, 1, c)

RECURSIVE GlobFrom(_, _, _, _)
GlobFrom(p, i, s, j) ==
    IF i > Len(p) THEN j > Len(s)
    ELSE IF p[i] = "*"
         THEN GlobFrom(p, i + 1, s, j) \/ (j <= Len(s) /\ GlobFrom(p, i, s, j + 1))
    ELSE IF p[i] = "?"
         THEN j <= Len(s) /\ GlobFrom(p, i + 1, s, j + 1)
    ELSE IF p[i] = "[" /\ ClassEnd(p, i) # 0
         THEN /\ j <= Len(s)
              /\ InClass(SubSeq(p, i + 1, ClassEnd(p, i) - 1), s[j])
              /\ GlobFrom(p, ClassEnd(p, i) + 1, s, j + 1)
    ELSE j <= Len(s) /\ s[j] = p[i] /\ GlobFrom(p, i + 1, s, j + 1)

fnmatch(name, pat) == GlobFrom(pat, 1, name, 1)

(***************************************************************************)
(* Constants of the program.                                               *)
(***************************************************************************)
EMPTY_EVENT_PATH == <<>>
ERROR_MESSAGE_EVENT_FILE == <<"No GitHub event file found at ">>

\* os.getenv(key, default); a variable is [set |-> FALSE] or [set |-> TRUE, v |-> text].
get_env_var(e, key, default) == IF e[key].set THEN e[key].v ELSE default

EnvUnset == [set |-> FALSE]
EnvSet(s) == [set |-> TRUE, v |-> s]

(***************************************************************************)
(* pathlib.Path(text): the empty and "." components are dropped, a         *)
(* trailing slash is dropped, and a path left with no component is ".".    *)
(***************************************************************************)
PathParts(s) == SelectSeq(Split(s, "/"), LAMBDA c : c # <<>> /\ c # <<".">>)

IsAbsolute(s) == s # <<>> /\ s[1] = "/"

\* str(Path(s))
PathOf(s) ==
    IF IsAbsolute(s) THEN <<"/">> \o Join(PathParts(s), "/")
    ELSE IF PathParts(s) = <<>> THEN <<".">>
    ELSE Join(PathParts(s), "/")

NoNode == [kind |-> "none"]
DirNode == [kind |-> "dir"]

\* What Path(s) refers to.  The working directory holds the entries of filesys,
\* its sub-directories are empty, and nothing is modelled below the root.
Lookup(filesys, s) ==
    LET parts == PathParts(s)
    IN  IF parts = <<>> THEN DirNode
        ELSE IF IsAbsolute(s) THEN NoNode
        ELSE IF Len(parts) = 1 /\ parts[1] \in DOMAIN filesys THEN filesys[parts[1]]
        ELSE NoNode

\* read_github_event(): exists() is true of a directory too; open() then fails on it.
read_github_event(e, filesys) ==
    LET raw == get_env_var(e, "GITHUB_EVENT_PATH", EMPTY_EVENT_PATH)
        event_path == PathOf(raw)
        node == Lookup(filesys, raw)
    IN  IF node.kind = "none"
        THEN Raise("FileNotFoundError", ERROR_MESSAGE_EVENT_FILE \o event_path)
        ELSE IF node.kind = "dir"
        THEN Raise("IsADirectoryError", <<"[Errno 21] Is a directory: '">> \o event_path \o <<"'">>)
        ELSE IF ~node.valid
        THEN Raise("JSONDecodeError", <<"Expecting value: line 1 column 1 (char 0)">>)
        ELSE Ok(node.data)

(***************************************************************************)
(* get_pr_details                                                          *)
(***************************************************************************)
AttributeError(v) == Raise("AttributeError", <<"'", v.t, "' object has no attribute 'get'">>)
KeyError(k) == Raise("KeyError", <<"'", k, "'">>)

\* obj[k]: a missing key raises.
PyGetStrict(obj, k, default) ==
    IF obj.t # "dict" THEN AttributeError(obj)
    ELSE IF k \in DOMAIN obj.v THEN Ok(obj.v[k]) ELSE KeyError(k)

\* obj.get(k, default): a dict answers, anything else has no attribute get.
PyGet(obj, k, default) ==
    IF obj.t = "dict" THEN Ok(DictGet(obj, k, default)) ELSE AttributeError(obj)

\* a.get(k1, {}).get(k2, default)
PyGet2(obj, k1, k2, default) ==
    LET inner == PyGet(obj, k1, EmptyDict)
    IN  IF inner.ok THEN PyGet(inner.val, k2, default) ELSE inner

get_pr_details(ev) ==
    LET repository == PyGet(ev, "repository", EmptyDict)
        owner == IF repository.ok THEN PyGet2(repository.val, "owner", "login", Str(<<>>))
                 ELSE repository
        repo == IF repository.ok THEN PyGet(repository.val, "name", Str(<<>>)) ELSE repository
        pull_number == PyGet(ev, "number", NoneV)
        title == PyGet2(ev, "pull_request", "title", Str(<<>>))
        description == PyGet2(ev, "pull_request", "body", Str(<<>>))
        parts == <<repository, owner, repo, pull_number, title, description>>
    IN  IF \E i \in 1..6 : ~parts[i].ok
        THEN parts[CHOOSE i \in 1..6 : ~parts[i].ok /\ \A j \in 1..(i - 1) : parts[j].ok]
        ELSE Ok(Dict([owner |-> owner.val, repo |-> repo.val,
                      pull_number |-> pull_number.val,
                      title |-> title.val, description |-> description.val]))

(***************************************************************************)
(* get_diff: the placeholder text.                                         *)
(***************************************************************************)
get_diff(pr) ==
    Ok(Str(<<"Dummy diff content for PR ">> \o Format(pr.v.pull_number)
           \o <<" from ">> \o Format(pr.v.owner) \o <<"/">> \o Format(pr.v.repo)))

(***************************************************************************)
(* filter_files                                                            *)
(***************************************************************************)
\* The patterns as split, not stripped.
exclude_patterns_NoStrip(e) ==
    LET raw == Split(get_env_var(e, "INPUT_EXCLUDE", <<>>), ",")
    IN  [i \in 1..Len(raw) |-> StripNoop(raw[i])]

\* The stripped patterns without the empty ones.
exclude_patterns_DropEmpty(e) ==
    LET raw == Split(get_env_var(e, "INPUT_EXCLUDE", <<>>), ",")
    IN  SelectSeq([i \in 1..Len(raw) |-> Strip(raw[i])], LAMBDA p : p # <<>>)

\* [pattern.strip() for pattern in get_env_var("INPUT_EXCLUDE", "").split(",")]
exclude_patterns(e) ==
    LET raw == Split(get_env_var(e, "INPUT_EXCLUDE", <<>>), ",")
    IN  [i \in 1..Len(raw) |-> Strip(raw[i])]

\* What `for file in v` yields: the items of a list, the characters of a str.
Elements(v) ==
    IF v.t = "list" THEN v.v
    ELSE IF v.t = "str" THEN [i \in 1..Len(v.v) |-> Str(<<v.v[i]>>)]
    ELSE <<>>

\* any(fnmatch.fnmatch(file.get("new_path", ""), pattern) for pattern in patterns)
Excluded(file, patterns) ==
    \E i \in 1..Len(patterns) : fnmatch(DictGet(file, "new_path", Str(<<>>)).v, patterns[i])

filter_files(diffs, e) ==
    LET patterns == exclude_patterns(e)
        files == Elements(diffs)
    IN  IF \E i \in 1..Len(files) : files[i].t # "dict"
        THEN AttributeError(files[CHOOSE i \in 1..Len(files) : files[i].t # "dict"])
        ELSE Ok(List(SelectSeq(files, LAMBDA file : ~Excluded(file, patterns))))

(***************************************************************************)
(* analyze_code: one loop iteration per file; the model call is the one    *)
(* step whose outcome the program does not decide.                         *)
(***************************************************************************)
\* AI_PROMPT_TEMPLATE with its three fields substituted.
Prompt(pr, diff) ==
    [pr_title |-> Format(pr.v.title), pr_description |-> Format(pr.v.description),
     diff |-> Format(diff)]

\* f"Comments for {file.get('new_path', 'unknown')}:\n{text}"
Comment(file, text) ==
    <<"Comments for ">> \o Format(DictGet(file, "new_path", Str(<<"unknown">>)))
    \o <<":\n">> \o text

\* llm.generate: a response with its text, no response, or a failure.
LlmRaise == [kind |-> "raise"]
LlmNone == [kind |-> "none"]
LlmText(s) == [kind |-> "text", text |-> s]
LlmOutcomes == {LlmRaise, LlmNone, LlmText(<<>>), LlmText(<<"L", "G", "T", "M">>)}

\* `if ai_response and ai_response.generations[0].text`
HasText(o) == o.kind = "text" /\ o.text # <<>>

(***************************************************************************)
(* create_review_comment: one printed line per comment.                    *)
(***************************************************************************)
PostLine(pr, comment) ==
    <<"Posting comment to PR ">> \o Format(pr.v.pull_number) \o <<":\n">> \o comment

ErrorLine(e) == <<"Error occurred: ">> \o e.msg

(***************************************************************************)
(* sequentialChainForAction: the tool list of the action, or no list.      *)
(***************************************************************************)
PRREVIEW == <<"p", "r", "r", "e", "v", "i", "e", "w">>

ReviewTools == <<"read_github_event", "get_pr_details", "get_diff", "filter_files",
                 "analyze_code", "create_review_comment">>

\* As sequentialChainForAction, with "Filter Files" listed before "Get Diff".
sequentialChainFilterFirst(action) ==
    IF action = PRREVIEW \/ action = <<>>
    THEN Ok(<<"read_github_event", "get_pr_details", "filter_files", "get_diff",
              "analyze_code", "create_review_comment">>)
    ELSE Raise("UnboundLocalError",
               <<"cannot access local variable 'tools' where it is not associated with a value">>)

sequentialChainForAction(action) ==
    IF action = PRREVIEW THEN Ok(ReviewTools)
    ELSE IF action = <<>> THEN Ok(ReviewTools)
    ELSE Raise("UnboundLocalError",
               <<"cannot access local variable 'tools' where it is not associated with a value">>)

\* main_chain()
main_chain(e) == sequentialChainForAction(Lower(get_env_var(e, "REPO_RECOMMENDER_ACTION", PRREVIEW)))

(***************************************************************************)
(* The run: __main__ builds the chain and runs it inside try/except.       *)
(***************************************************************************)
\* The tool the chain runs after `tool`, or the end of the run.
After(tool) ==
    LET i == CHOOSE i \in 1..Len(chain) : chain[i] = tool
    IN  IF i < Len(chain) THEN chain[i + 1] ELSE "exit"

\* One tool called with args and ending with result r: it returns and the chain
\* moves on, or it raises and control passes to the except clause.
Call(tool, args, r) ==
    /\ pc = tool
    /\ started' = Append(started, [tool |-> tool, args |-> args])
    /\ IF r.ok
       THEN /\ finished' = Append(finished, [tool |-> tool, value |-> r.val])
            /\ pc' = After(tool)
            /\ exc' = exc
       ELSE /\ finished' = finished
            /\ pc' = "except"
            /\ exc' = r.exc

\* pr_chain = main_chain()
MainChain ==
    /\ pc = "main_chain"
    /\ LET r == main_chain(env)
       IN  IF r.ok
           THEN /\ chain' = r.val
                /\ pc' = r.val[1]
                /\ exc' = exc
           ELSE /\ chain' = chain
                /\ pc' = "except"
                /\ exc' = r.exc
    /\ UNCHANGED <<env, fs, event_data, pr_details, file_diffs, filtered_files,
                   comments, idx, llm_calls, stdout, started, finished>>

ReadGithubEvent ==
    LET r == read_github_event(env, fs)
    IN  /\ Call("read_github_event", <<>>, r)
        /\ event_data' = IF r.ok THEN r.val ELSE event_data
        /\ UNCHANGED <<env, fs, chain, pr_details, file_diffs, filtered_files,
                       comments, idx, llm_calls, stdout>>

GetPrDetails ==
    LET r == get_pr_details(event_data)
    IN  /\ Call("get_pr_details", <<event_data>>, r)
        /\ pr_details' = IF r.ok THEN r.val ELSE pr_details
        /\ UNCHANGED <<env, fs, chain, event_data, file_diffs, filtered_files,
                       comments, idx, llm_calls, stdout>>

GetDiff ==
    LET r == get_diff(pr_details)
    IN  /\ Call("get_diff", <<pr_details>>, r)
        /\ file_diffs' = IF r.ok THEN r.val ELSE file_diffs
        /\ UNCHANGED <<env, fs, chain, event_data, pr_details, filtered_files,
                       comments, idx, llm_calls, stdout>>

FilterFiles ==
    LET r == filter_files(file_diffs, env)
    IN  /\ Call("filter_files", <<file_diffs>>, r)
        /\ filtered_files' = IF r.ok THEN r.val ELSE filtered_files
        /\ UNCHANGED <<env, fs, chain, event_data, pr_details, file_diffs,
                       comments, idx, llm_calls, stdout>>

\* As AnalyzeBegin, but filling in a missing description in place.
AnalyzeBeginDefaulting ==
    /\ pc = "analyze_code"
    /\ idx = 0
    /\ started' = Append(started, [tool |-> "analyze_code",
                                   args |-> <<filtered_files, pr_details>>])
    /\ comments' = List(<<>>)
    /\ idx' = 1
    /\ pr_details' = Dict([pr_details.v EXCEPT !.description = Str(<<"n", "/", "a">>)])
    /\ UNCHANGED <<pc, env, fs, chain, event_data, file_diffs,
                   filtered_files, llm_calls, stdout, exc, finished>>

\* analyze_code is entered: comments = []
AnalyzeBegin ==
    /\ pc = "analyze_code"
    /\ idx = 0
    /\ started' = Append(started, [tool |-> "analyze_code",
                                   args |-> <<filtered_files, pr_details>>])
    /\ comments' = List(<<>>)
    /\ idx' = 1
    /\ UNCHANGED <<pc, env, fs, chain, event_data, pr_details, file_diffs,
                   filtered_files, llm_calls, stdout, exc, finished>>

ModelInvocationFailure == Raise("ModelInvocationFailure", <<"model invocation failed">>).exc

\* As AfterModelCall, with a failed call treated as no response.
AfterModelCallSwallow(i, o) ==
    /\ comments' = IF HasText(o)
                   THEN List(Append(comments.v, Comment(filtered_files.v[i], o.text)))
                   ELSE comments
    /\ idx' = i + 1
    /\ UNCHANGED <<pc, exc>>

\* As AfterModelCall, with the new comment put first.
AfterModelCallPrepend(i, o) ==
    IF o.kind = "raise"
    THEN /\ exc' = ModelInvocationFailure
         /\ pc' = "except"
         /\ UNCHANGED <<comments, idx>>
    ELSE /\ comments' = IF HasText(o)
                        THEN List(<<Comment(filtered_files.v[i], o.text)>> \o comments.v)
                        ELSE comments
         /\ idx' = i + 1
         /\ UNCHANGED <<pc, exc>>

\* What analyze_code does with the outcome o of the model call for file i.
AfterModelCall(i, o) ==
    IF o.kind = "raise"
    THEN /\ exc' = ModelInvocationFailure
         /\ pc' = "except"
         /\ UNCHANGED <<comments, idx>>
    ELSE /\ comments' = IF HasText(o)
                        THEN List(Append(comments.v, Comment(filtered_files.v[i], o.text)))
                        ELSE comments
         /\ idx' = i + 1
         /\ UNCHANGED <<pc, exc>>

\* One iteration of `for file in filtered_files`.
AnalyzeFile ==
    /\ pc = "analyze_code"
    /\ idx \in 1..Len(filtered_files.v)
    /\ LET file == filtered_files.v[idx]
           diff == DictGet(file, "diff", NoneV)
       IN  IF ~Truthy(diff)
           THEN /\ idx' = idx + 1
                /\ UNCHANGED <<pc, comments, llm_calls, exc>>
           ELSE \E o \in LlmOutcomes :
                   /\ llm_calls' = Append(llm_calls, [file |-> idx,
                                                      prompt |-> Prompt(pr_details, diff),
                                                      outcome |-> o])
                   /\ AfterModelCall(idx, o)
    /\ UNCHANGED <<env, fs, chain, event_data, pr_details, file_diffs,
                   filtered_files, stdout, started, finished>>

\* return comments
AnalyzeReturn ==
    /\ pc = "analyze_code"
    /\ idx > Len(filtered_files.v)
    /\ finished' = Append(finished, [tool |-> "analyze_code", value |-> comments])
    /\ pc' = After("analyze_code")
    /\ UNCHANGED <<env, fs, chain, event_data, pr_details, file_diffs, filtered_files,
                   comments, idx, llm_calls, stdout, exc, started>>

CreateReviewComment ==
    /\ Call("create_review_comment", <<pr_details, comments>>, Ok(NoneV))
    /\ stdout' = stdout \o [i \in 1..Len(comments.v) |-> PostLine(pr_details, comments.v[i])]
    /\ UNCHANGED <<env, fs, chain, event_data, pr_details, file_diffs, filtered_files,
                   comments, idx, llm_calls>>

\* An except clause for FileNotFoundError alone.
CaughtOnlyNotFound(e) == e.type = "FileNotFoundError"

\* Which exceptions `except Exception` catches.
Caught(e) == e.base = "Exception"

\* except Exception as exc: print(f"Error occurred: {exc}")
ExceptHandler ==
    /\ pc = "except"
    /\ IF Caught(exc)
       THEN /\ stdout' = Append(stdout, ErrorLine(exc))
            /\ pc' = "exit"
       ELSE /\ stdout' = stdout
            /\ pc' = "crash"
    /\ UNCHANGED <<env, fs, chain, event_data, pr_details, file_diffs, filtered_files,
                   comments, idx, llm_calls, exc, started, finished>>

(***************************************************************************)
(* Inputs.                                                                 *)
(***************************************************************************)
\* All texts of at most n characters of alphabet.
Texts(alphabet, n) == UNION {[1..k -> alphabet] : k \in 0..n}

\* All lists of at most n items of items.
Lists(items, n) == {List(q) : q \in UNION {[1..k -> items] : k \in 0..n}}

\* The dict rec cut down to the keys ks.
Restrict(rec, ks) == Dict([k \in ks |-> rec[k]])

OwnerValues == {EmptyDict, Dict([login |-> Str(<<"o", "c", "t", "o">>)]), Dict([login |-> NoneV])}
NameValues == {Str(<<"r", "e", "p", "o">>), NoneV}
TitleValues == {Str(<<"F", "i", "x">>), NoneV}
BodyValues == {Str(<<"d", "e", "s", "c">>), NoneV}

RepositoryValues ==
    {Restrict([owner |-> o, name |-> n], ks) :
        o \in OwnerValues, n \in NameValues, ks \in SUBSET {"owner", "name"}}

PullRequestValues ==
    {Restrict([title |-> t, body |-> b], ks) :
        t \in TitleValues, b \in BodyValues, ks \in SUBSET {"title", "body"}}

\* Event payloads: every nested mapping and every field present or missing.
Events ==
    {Restrict([repository |-> r, number |-> Num(42), pull_request |-> p], ks) :
        r \in RepositoryValues, p \in PullRequestValues,
        ks \in SUBSET {"repository", "number", "pull_request"}}

FullEvent ==
    Dict([repository |-> Dict([owner |-> Dict([login |-> Str(<<"o", "c", "t", "o">>)]),
                               name |-> Str(<<"r", "e", "p", "o">>)]),
          number |-> Num(42),
          pull_request |-> Dict([title |-> Str(<<"F", "i", "x">>),
                                 body |-> Str(<<"d", "e", "s", "c">>)])])

MainEvents == {FullEvent, EmptyDict, Dict([number |-> Num(7), pull_request |-> Dict([body |-> NoneV])])}

FileNode(ev) == [kind |-> "file", valid |-> TRUE, data |-> ev]
GarbageNode == [kind |-> "file", valid |-> FALSE]

\* The working directory: a sub-directory d, and e: nothing, an event file or a
\* file that is not JSON.
Filesystems ==
    {(<<"e">> :> n) @@ (<<"d">> :> DirNode) :
        n \in {NoNode, GarbageNode} \cup {FileNode(ev) : ev \in MainEvents}}

EventPaths ==
    {EnvUnset} \cup
    {EnvSet(s) : s \in {<<>>, <<".">>, <<"e">>, <<".", "/", "e">>, <<"e", "/">>, <<"m">>,
                        <<".", "/", "m">>, <<"d">>, <<"d", "/", "e">>, <<"/", "e">>}}

ActionValues ==
    {EnvUnset} \cup
    {EnvSet(s) : s \in {PRREVIEW, <<"P", "R", "r", "e", "v", "i", "e", "w">>, <<>>,
                        <<"d", "o", "c", "s">>, PRREVIEW \o <<" ">>}}

MD == <<"*", ".", "m", "d">>
LOCK == <<"*", ".", "l", "o", "c", "k">>

CfgAlphabet == {"a", "*", "?", ",", " "}

ExampleConfigs ==
    {MD \o <<",">> \o <<" ">> \o LOCK \o <<" ">>,
     <<"?", ",", "[", "!", "a", "]", "a">>,
     <<" ", "\t", ",", " ", ",">>,
     <<"[", "a", "-", "b", "]">>}

Configs == {EnvUnset} \cup {EnvSet(s) : s \in Texts(CfgAlphabet, MaxCfgLen) \cup ExampleConfigs}

FileEntry(path) == Dict([new_path |-> Str(path), diff |-> Str(<<"+">>)])
NoPathEntry == Dict([diff |-> Str(<<"+">>)])

FilterEntries == {NoPathEntry} \cup {FileEntry(p) : p \in {<<>>, <<"a">>, <<"a", "a">>, <<"b">>}}

ExampleFiles ==
    List(<<FileEntry(<<"a", ".", "m", "d">>), FileEntry(<<"b", ".", "g", "o">>),
           FileEntry(<<"c", ".", "l", "o", "c", "k">>)>>)

FilterInputs == Lists(FilterEntries, MaxFilterFiles) \cup {ExampleFiles}

\* Files for analyze_code: new_path and diff each present or missing, diff empty or not.
AnalyzeEntries ==
    {Restrict([new_path |-> Str(p), diff |-> Str(d)], ks) :
        p \in {<<"a">>, <<"b">>}, d \in {<<>>, <<"+">>},
        ks \in {{"new_path", "diff"}, {"new_path"}, {"diff"}}}

AnalyzeInputs == Lists(AnalyzeEntries, MaxFiles)

NoEnv == [GITHUB_EVENT_PATH |-> EnvUnset, INPUT_EXCLUDE |-> EnvUnset,
          REPO_RECOMMENDER_ACTION |-> EnvUnset]

NoFiles == (<<"d">> :> DirNode)

(***************************************************************************)
(* The program: python main.py                                             *)
(***************************************************************************)
Init ==
    /\ pc = "main_chain"
    /\ env \in {[GITHUB_EVENT_PATH |-> p, INPUT_EXCLUDE |-> x, REPO_RECOMMENDER_ACTION |-> a] :
                    p \in EventPaths, x \in {EnvUnset, EnvSet(MD)}, a \in ActionValues}
    /\ fs \in Filesystems
    /\ chain = <<>>
    /\ event_data = Unset
    /\ pr_details = Unset
    /\ file_diffs = Unset
    /\ filtered_files = Unset
    /\ comments = Unset
    /\ idx = 0
    /\ llm_calls = <<>>
    /\ stdout = <<>>
    /\ exc = NoExc
    /\ started = <<>>
    /\ finished = <<>>

\* As get_diff returns a text, filter_files always raises and the run never
\* reaches analyze_code or create_review_comment.
Next ==
    \/ MainChain
    \/ ReadGithubEvent
    \/ GetPrDetails
    \/ GetDiff
    \/ FilterFiles
    \/ ExceptHandler

Spec == Init /\ [][Next]_vars


(***************************************************************************)
(* get_pr_details applied to every event payload.                          *)
(***************************************************************************)
InitDetails ==
    /\ pc = "get_pr_details"
    /\ env = NoEnv
    /\ fs = NoFiles
    /\ chain = ReviewTools
    /\ event_data \in Events
    /\ pr_details = Unset
    /\ file_diffs = Unset
    /\ filtered_files = Unset
    /\ comments = Unset
    /\ idx = 0
    /\ llm_calls = <<>>
    /\ stdout = <<>>
    /\ exc = NoExc
    /\ started = <<>>
    /\ finished = <<>>

NextDetails == GetPrDetails

SpecDetails == InitDetails /\ [][NextDetails]_vars

(***************************************************************************)
(* filter_files applied to lists of files under exclusion configurations.  *)
(***************************************************************************)
InitFilter ==
    /\ pc = "filter_files"
    /\ env \in {[NoEnv EXCEPT !.INPUT_EXCLUDE = x] : x \in Configs}
    /\ fs = NoFiles
    /\ chain = ReviewTools
    /\ event_data = FullEvent
    /\ pr_details = get_pr_details(FullEvent).val
    /\ file_diffs \in FilterInputs
    /\ filtered_files = Unset
    /\ comments = Unset
    /\ idx = 0
    /\ llm_calls = <<>>
    /\ stdout = <<>>
    /\ exc = NoExc
    /\ started = <<>>
    /\ finished = <<>>

NextFilter == FilterFiles

SpecFilter == InitFilter /\ [][NextFilter]_vars

(***************************************************************************)
(* The run from the return of the diff stage on, inside the try/except of  *)
(* __main__, when the diff stage has returned a list of files (what the    *)
(* parameter of filter_files is declared to be) for the event's PR.        *)
(***************************************************************************)
InitFiles ==
    /\ pc = "filter_files"
    /\ env \in {[NoEnv EXCEPT !.INPUT_EXCLUDE = x] : x \in {EnvUnset, EnvSet(<<"b">>)}}
    /\ fs = NoFiles
    /\ chain = ReviewTools
    /\ event_data \in MainEvents
    /\ pr_details = get_pr_details(event_data).val
    /\ file_diffs \in AnalyzeInputs
    /\ filtered_files = Unset
    /\ comments = Unset
    /\ idx = 0
    /\ llm_calls = <<>>
    /\ stdout = <<>>
    /\ exc = NoExc
    /\ started = <<[tool |-> "read_github_event", args |-> <<>>],
                    [tool |-> "get_pr_details", args |-> <<event_data>>],
                    [tool |-> "get_diff", args |-> <<pr_details>>]>>
    /\ finished = <<[tool |-> "read_github_event", value |-> event_data],
                     [tool |-> "get_pr_details", value |-> pr_details],
                     [tool |-> "get_diff", value |-> file_diffs]>>

NextFiles ==
    \/ FilterFiles
    \/ AnalyzeBegin
    \/ AnalyzeFile
    \/ AnalyzeReturn
    \/ CreateReviewComment
    \/ ExceptHandler

SpecFiles == InitFiles /\ [][NextFiles]_vars

(***************************************************************************)
(* Both together: runs of the program, and runs continued from a diff      *)
(* stage that returned a list of files.                                    *)
(***************************************************************************)
InitChain == Init \/ InitFiles

NextChain ==
    \/ MainChain
    \/ ReadGithubEvent
    \/ GetPrDetails
    \/ GetDiff
    \/ FilterFiles
    \/ AnalyzeBegin
    \/ AnalyzeFile
    \/ AnalyzeReturn
    \/ CreateReviewComment
    \/ ExceptHandler

SpecChain == InitChain /\ [][NextChain]_vars

\* The run is one thread of control: it takes its next step whenever it has one.
FairChain == SpecChain /\ WF_vars(NextChain)

(***************************************************************************)
(* Properties of filter_files (SpecFilter).                                *)
(***************************************************************************)
\* The configured exclusion text, read off the environment.
Configured == IF env.INPUT_EXCLUDE.set THEN env.INPUT_EXCLUDE.v ELSE <<>>

\* The comma-delimited pieces of text s: maximal runs without a comma.
Pieces(s) ==
    {SubSeq(s, i, j) : <<i, j>> \in
        {ij \in (1..(Len(s) + 1)) \X (0..Len(s)) :
            /\ ij[1] <= ij[2] + 1
            /\ (ij[1] = 1 \/ s[ij[1] - 1] = ",")
            /\ (ij[2] = Len(s) \/ s[ij[2] + 1] = ",")
            /\ \A k \in ij[1]..ij[2] : s[k] # ","}}

\* s without its leading and trailing whitespace, as the set holding that one text.
Trimmed(s) ==
    {SubSeq(s, a, b) : <<a, b>> \in
        {ab \in (1..(Len(s) + 1)) \X (0..Len(s)) :
            /\ ab[1] <= ab[2] + 1
            /\ \A k \in 1..(ab[1] - 1) : s[k] \in Whitespace
            /\ \A k \in (ab[2] + 1)..Len(s) : s[k] \in Whitespace
            /\ (ab[1] <= ab[2] => s[ab[1]] \notin Whitespace /\ s[ab[2]] \notin Whitespace)}}

TrimmedPatterns == UNION {Trimmed(piece) : piece \in Pieces(Configured)}

NewPath(file) == IF "new_path" \in DOMAIN file.v THEN file.v.new_path.v ELSE <<>>

MatchesNone(file) == \A pat \in TrimmedPatterns : ~fnmatch(NewPath(file), pat)

\* The n-th smallest member of the index set K.
Nth(K, n) == CHOOSE i \in K : Cardinality({j \in K : j <= i}) = n

\* out holds exactly the items of inp at the indices K, in their order.
IsSelection(out, inp, K) ==
    /\ Len(out) = Cardinality(K)
    /\ \A n \in 1..Len(out) : out[n] = inp[Nth(K, n)]

FilterReturned == \E k \in 1..Len(finished) : finished[k].tool = "filter_files"

ExampleConfig == MD \o <<",">> \o <<" ">> \o LOCK \o <<" ">>

\* C1: filter_files never fails on a list of FileDiff entries, and what it returns
\* is the input restricted, in input order, to exactly the entries whose new_path
\* matches none of the trimmed comma-separated patterns; with "*.md, *.lock " and
\* a.md, b.go, c.lock it returns [b.go].
C1_FilterIsExactSubsequence ==
    /\ pc # "except"
    /\ FilterReturned =>
        /\ filtered_files.t = "list"
        /\ IsSelection(filtered_files.v, file_diffs.v,
                       {i \in 1..Len(file_diffs.v) : MatchesNone(file_diffs.v[i])})
        /\ (Configured = ExampleConfig /\ file_diffs = ExampleFiles)
              => filtered_files = List(<<FileEntry(<<"b", ".", "g", "o">>)>>)

C1_Witness ==
    /\ FilterReturned
    /\ Configured = ExampleConfig
    /\ file_diffs = ExampleFiles
    /\ Len(filtered_files.v) = 1

\* Every pattern of the configuration is empty or whitespace only.
BlankConfig == \A k \in 1..Len(Configured) : Configured[k] \in Whitespace \cup {","}

\* C2 as stated: under a blank configuration the output equals the input, also
\* for entries whose new_path is empty or absent.
C2_BlankExcludesNothing ==
    (FilterReturned /\ BlankConfig) => filtered_files = file_diffs

\* C2 amended: under a blank configuration filter_files drops exactly the entries
\* whose new_path is empty or absent and keeps every other entry, in order; so
\* an input whose entries all have a non-empty new_path is returned unchanged.
C2_BlankExcludesOnlyEmptyPaths ==
    (FilterReturned /\ BlankConfig) =>
        /\ IsSelection(filtered_files.v, file_diffs.v,
                       {i \in 1..Len(file_diffs.v) : NewPath(file_diffs.v[i]) # <<>>})
        /\ (\A i \in 1..Len(file_diffs.v) : NewPath(file_diffs.v[i]) # <<>>)
              => filtered_files = file_diffs

C2_Witness ==
    /\ FilterReturned
    /\ BlankConfig
    /\ Configured # <<>>
    /\ Len(file_diffs.v) = 2
    /\ NewPath(file_diffs.v[1]) = <<>>
    /\ NewPath(file_diffs.v[2]) # <<>>
    /\ filtered_files = List(<<file_diffs.v[2]>>)

(***************************************************************************)
(* Properties of get_pr_details (SpecDetails).                             *)
(***************************************************************************)
HasKey(d, k) == d.t = "dict" /\ k \in DOMAIN d.v

\* event[k1][k2] when both keys are present, else dflt.
Field2(ev, k1, k2, dflt) ==
    IF HasKey(ev, k1) /\ HasKey(ev.v[k1], k2) THEN ev.v[k1].v[k2] ELSE dflt

\* event["repository"]["owner"]["login"] when all three keys are present, else "".
OwnerLogin(ev) ==
    IF HasKey(ev, "repository") /\ HasKey(ev.v.repository, "owner")
       /\ HasKey(ev.v.repository.v.owner, "login")
    THEN ev.v.repository.v.owner.v.login
    ELSE Str(<<>>)

DetailsReturned == \E k \in 1..Len(finished) : finished[k].tool = "get_pr_details"

\* C3: get_pr_details never raises, whatever fields of the event are missing, and
\* returns a record with exactly the fields owner, repo, pull_number, title and
\* description, each the event's value when present, else "" (None for pull_number).
C3_DetailsTotalAndDefaulted ==
    /\ pc # "except"
    /\ exc = NoExc
    /\ DetailsReturned =>
        /\ pr_details.t = "dict"
        /\ DOMAIN pr_details.v = {"owner", "repo", "pull_number", "title", "description"}
        /\ pr_details.v.owner = OwnerLogin(event_data)
        /\ pr_details.v.repo = Field2(event_data, "repository", "name", Str(<<>>))
        /\ pr_details.v.pull_number =
              (IF HasKey(event_data, "number") THEN event_data.v.number ELSE NoneV)
        /\ pr_details.v.title = Field2(event_data, "pull_request", "title", Str(<<>>))
        /\ pr_details.v.description = Field2(event_data, "pull_request", "body", Str(<<>>))

C3_Witness ==
    /\ DetailsReturned
    /\ ~HasKey(event_data, "repository")
    /\ ~HasKey(event_data, "number")
    /\ ~HasKey(event_data, "pull_request")
    /\ pr_details = Dict([owner |-> Str(<<>>), repo |-> Str(<<>>), pull_number |-> NoneV,
                          title |-> Str(<<>>), description |-> Str(<<>>)])

(***************************************************************************)
(* Properties of analyze_code and of the chain after it (SpecFiles).       *)
(***************************************************************************)
ToolStarted(tool) == \E k \in 1..Len(started) : started[k].tool = tool
ToolReturned(tool) == \E k \in 1..Len(finished) : finished[k].tool = tool
ReturnedValue(tool) == finished[CHOOSE k \in 1..Len(finished) : finished[k].tool = tool].value
Arguments(tool) == started[CHOOSE k \in 1..Len(started) : started[k].tool = tool].args

\* The file has diff text that is not empty.
HasDiff(file) == "diff" \in DOMAIN file.v /\ file.v.diff.t = "str" /\ file.v.diff.v # <<>>

\* The calls that came back with a response whose text is not empty.
Answered == {k \in 1..Len(llm_calls) :
                llm_calls[k].outcome.kind = "text" /\ llm_calls[k].outcome.text # <<>>}

ExpectedComment(call) ==
    LET file == filtered_files.v[call.file]
    IN  <<"Comments for ">>
        \o (IF "new_path" \in DOMAIN file.v THEN file.v.new_path.v ELSE <<"unknown">>)
        \o <<":\n">> \o call.outcome.text

\* C4: when analyze_code returns, the model was invoked once for each file with a
\* non-empty diff, in input order, and for no other file; and the comments are, in
\* that order, "Comments for {path}:\n{response}" for exactly the invocations that
\* returned a non-empty response.
C4_OneCommentPerAnsweredDiff ==
    ToolReturned("analyze_code") =>
        /\ IsSelection([k \in 1..Len(llm_calls) |-> llm_calls[k].file],
                       [i \in 1..Len(filtered_files.v) |-> i],
                       {i \in 1..Len(filtered_files.v) : HasDiff(filtered_files.v[i])})
        /\ comments.t = "list"
        /\ IsSelection(comments.v,
                       [k \in 1..Len(llm_calls) |-> ExpectedComment(llm_calls[k])],
                       Answered)
        /\ ReturnedValue("analyze_code") = comments

C4_Witness ==
    /\ ToolReturned("analyze_code")
    /\ Len(filtered_files.v) = 2
    /\ ~HasDiff(filtered_files.v[1])
    /\ HasDiff(filtered_files.v[2])
    /\ Len(comments.v) = 1
    /\ comments.v[1] = <<"Comments for ", "b", ":\n", "L", "G", "T", "M">>

IsPostLine(line) == line[1] = "Posting comment to PR "
IsErrorLine(line) == line[1] = "Error occurred: "

\* C8: once a model invocation has failed it is the last invocation (none for a
\* later file, none again for the same file), analyze_code does not return,
\* create_review_comment is not started, no comment is printed, and the run is in
\* or past the except clause with that failure as its exception.
C8_ModelFailureAbortsRun ==
    /\ \A j, k \in 1..Len(llm_calls) : j < k => llm_calls[j].file < llm_calls[k].file
    /\ \A k \in 1..Len(llm_calls) :
          llm_calls[k].outcome.kind = "raise" =>
             /\ k = Len(llm_calls)
             /\ pc \in {"except", "exit"}
             /\ exc.type = "ModelInvocationFailure"
             /\ ~ToolReturned("analyze_code")
             /\ ~ToolStarted("create_review_comment")
             /\ \A n \in 1..Len(stdout) : ~IsPostLine(stdout[n])

C8_Witness ==
    /\ pc = "exit"
    /\ Len(llm_calls) = 2
    /\ llm_calls[1].outcome.kind = "text" /\ llm_calls[1].outcome.text # <<>>
    /\ llm_calls[2].outcome.kind = "raise"
    /\ Len(comments.v) = 1
    /\ stdout = <<<<"Error occurred: ", "model invocation failed">>>>

StageOrder == <<"read_github_event", "get_pr_details", "get_diff", "filter_files",
                "analyze_code", "create_review_comment">>

\* C9: the stages start in the order Event Reader, PR Detail Extractor, Diff
\* Fetcher, File Filter, Code Analyzer, Comment Publisher, each at most once; a
\* stage starts only when every stage before it has returned; and the value the
\* previous stage returned is among the arguments the stage is called with.
C9_StagesInOrderOnce ==
    /\ Len(started) <= Len(StageOrder)
    /\ \A k \in 1..Len(started) : started[k].tool = StageOrder[k]
    /\ \A k \in 1..Len(finished) : finished[k].tool = StageOrder[k]
    /\ Len(finished) <= Len(started)
    /\ Len(started) <= Len(finished) + 1
    /\ (pc \in {"read_github_event", "get_pr_details", "get_diff", "filter_files",
                "analyze_code", "create_review_comment"} /\ idx = 0)
          => (Len(started) = Len(finished) /\ pc = StageOrder[Len(started) + 1])
    /\ \A k \in 2..Len(started) :
          \E a \in 1..Len(started[k].args) : started[k].args[a] = finished[k - 1].value

C9_Witness ==
    /\ pc = "exit"
    /\ exc = NoExc
    /\ Len(started) = 6
    /\ Len(finished) = 6
    /\ started[5].args = <<finished[4].value, finished[2].value>>
    /\ started[6].args = <<finished[2].value, finished[5].value>>
    /\ Len(stdout) = 2

\* The configured action, as main_chain reads and lower-cases it.
SelectedAction ==
    Lower(IF env.REPO_RECOMMENDER_ACTION.set THEN env.REPO_RECOMMENDER_ACTION.v ELSE PRREVIEW)

\* C5: an action other than "prreview" (in any letter case) or "" ends the build
\* of the pipeline with a configuration error (UnrecognizedAction or
\* ConfigurationError), and no stage is run.
C5_UnknownActionIsConfigurationError ==
    (SelectedAction \notin {PRREVIEW, <<>>} /\ pc # "main_chain") =>
        /\ exc.type \in {"UnrecognizedAction", "ConfigurationError"}
        /\ started = <<>>

\* The configured event path, and whether it names an existing file.
AttemptedPath == IF env.GITHUB_EVENT_PATH.set THEN env.GITHUB_EVENT_PATH.v ELSE <<>>
EventFileExists == Lookup(fs, AttemptedPath).kind = "file"

\* C6: when the configured event path (the empty default included) names no
\* existing file, read_github_event ends with a FileNotFoundError whose message
\* holds the path, and returns no event.
C6_MissingEventFileIsNotFound ==
    (ToolStarted("read_github_event") /\ ~EventFileExists) =>
        /\ exc.type = "FileNotFoundError"
        /\ Contains(exc.msg, PathOf(AttemptedPath))
        /\ event_data = Unset
        /\ ~ToolReturned("read_github_event")

ErrorLines == {n \in 1..Len(stdout) : IsErrorLine(stdout[n])}

C7_ErrorsCaughtAndPrintedOnce ==
    /\ pc # "crash"
    /\ exc # NoExc => pc \in {"except", "exit"}
    /\ Cardinality(ErrorLines) <= 1
    /\ pc = "except" => (exc # NoExc /\ ErrorLines = {})
    /\ pc = "exit" =>
          IF exc = NoExc THEN ErrorLines = {}
          ELSE /\ Cardinality(ErrorLines) = 1
               /\ stdout[Len(stdout)] = <<"Error occurred: ">> \o exc.msg

\* C7: every run ends; an error raised while building the pipeline or in any
\* stage is caught by the except clause, which prints the one line
\* "Error occurred: <message>" before the process exits; no error escapes it.
C7_RunEndsErrorsCaught == [](C7_ErrorsCaughtAndPrintedOnce) /\ <>(pc = "exit")

C7_Witness ==
    /\ pc = "exit"
    /\ exc.type = "AttributeError"
    /\ Len(started) = 4
    /\ Len(finished) = 3
    /\ stdout = <<<<"Error occurred: ", "'", "str", "' object has no attribute 'get'">>>>

====
